---------------------------- MODULE Spec2Model ----------------------------
(***************************************************************************)
(* Verification model of the pH monitor dashboards:                        *)
(*   software/UI_streamlit/main.py          single-threaded polling        *)
(*   software/UI_streamlit/tests/test1.py   background reader, variant 1   *)
(*   software/UI_streamlit/tests/test2.py   background reader, variant 2   *)
(*   Mediciones/old/app3.py                 calibration by two points      *)
(*                                                                         *)
(* Python floats are binary floating point with round-to-nearest-even.     *)
(* The model keeps that arithmetic and scales the significand down from    *)
(* 53 bits to MantBits bits: a number is m * 2^e with |m| < 2^MantBits,    *)
(* every operation computes the exact result and rounds it once.           *)
(***************************************************************************)
EXTENDS Integers, Sequences, FiniteSets, TLC

(***************************************************************************)
(* Bounds of the model.                                                    *)
(***************************************************************************)
\* significand width of the modelled floats (53 in CPython)
MantBits == 4

\* significand width at which the Nernst slope is evaluated against its
\* documented value (a tolerance of 1e-4 on 0.05916 needs 10 bits and more)
SlopeBits == 13

\* capacity of main.py's deques (MAX_BUFFER = 10000 in main.py:99), scaled
\* down so that eviction happens within the explored runs
MAX_BUFFER == 2

\* the clock stops here; it counts quarter milliseconds
MaxTime == 3

VARIABLES
    \* ---- main.py: st.session_state and the last script run's globals
    now,                \* time.time(), in quarter milliseconds
    t0,                 \* st.session_state.t0
    buf_V,              \* st.session_state.buf_V
    buf_pH_tp,          \* st.session_state.buf_pH_tp
    buf_pH_nernst,      \* st.session_state.buf_pH_nernst
    buf_t,              \* st.session_state.buf_t (milliseconds)
    ser,                \* st.session_state.ser: "None" or "Serial"
    serial_connected,   \* st.session_state.serial_connected
    cached_ports,       \* st.session_state.cached_ports
    run,                \* globals of the last script run
    appended,           \* history: samples appended since the last clear
    \* ---- pure functions under test
    fn_args,
    fn_out,
    \* ---- tests/test1.py and tests/test2.py: st.session_state, the reader
    \* threads and the page the last script run rendered
    running,            \* st.session_state.running
    reader,             \* st.session_state.reader: 0 (None) or a reader id
    q,                  \* st.session_state.q: the id of a queue
    stop_event,         \* st.session_state.stop_event.is_set()
    data,               \* st.session_state.data
    calib,              \* st.session_state.calib
    queues,             \* the items of every queue.Queue created so far
    readers,            \* every SerialReader: where its run() stands
    ui,                 \* the script run in progress, if any
    page,               \* what the last script run rendered
    clock,              \* time.time() of the reader threads
    signalled,          \* history: readers alive when Desconectar set stop
                        \* that have not returned yet
    \* ---- Mediciones/old/app3.py: st.session_state, the module's globals
    \* and the widget value of the script run in progress
    calibration_points,             \* st.session_state.calibration_points
    calibrate_neutral_triggered,    \* st.session_state, same name
    calibrate_slope_triggered,      \* st.session_state, same name
    NEUTRAL_VOLTAGE,                \* global of the run in progress
    PH_SLOPE,                       \* global of the run in progress
    cal_ph_value                    \* "Valor de pH conocido" of the run

mainVars == <<now, t0, buf_V, buf_pH_tp, buf_pH_nernst, buf_t, ser,
              serial_connected, cached_ports, run, appended>>

fnVars == <<fn_args, fn_out>>

thVars == <<running, reader, q, stop_event, data, calib, queues, readers, ui,
            page, clock, signalled>>

appVars == <<calibration_points, calibrate_neutral_triggered,
             calibrate_slope_triggered, NEUTRAL_VOLTAGE, PH_SLOPE,
             cal_ph_value>>

vars == <<mainVars, fnVars, thVars, appVars>>

(***************************************************************************)
(* Floating point.                                                         *)
(***************************************************************************)
Pow2(n) == IF n <= 0 THEN 1 ELSE 2 ^ n

Abs(n) == IF n < 0 THEN -n ELSE n

Sgn(n) == IF n < 0 THEN -1 ELSE 1

Min2(a, b) == IF a <= b THEN a ELSE b

Max2(a, b) == IF a >= b THEN a ELSE b

\* number of bits of a positive integer (0 for 0)
RECURSIVE BitLen(_)
BitLen(n) == IF n <= 0 THEN 0 ELSE 1 + BitLen(n \div 2)

\* the float m * 2^e in canonical form: m odd, or m = 0 and e = 0
RECURSIVE Norm(_, _)
Norm(m, e) ==
    IF m = 0 THEN [k |-> "num", m |-> 0, e |-> 0]
    ELSE IF m % 2 = 0 THEN Norm(m \div 2, e + 1)
    ELSE [k |-> "num", m |-> m, e |-> e]

\* float("nan")
NaN == [k |-> "nan", m |-> 0, e |-> 0]

\* Python's None
None == [k |-> "none", m |-> 0, e |-> 0]

\* the value an expression has when its evaluation raised ZeroDivisionError
ZeroDiv == [k |-> "zerodiv", m |-> 0, e |-> 0]

IsNum(x) == x.k = "num"

\* an integer as a float (exact for |n| < 2^MantBits)
FInt(n) == Norm(n, 0)

\* round-to-nearest-even of the exact value (quo + frac) * 2^e, quo >= 0 an
\* integer, frac in [0,1) known only as "sticky" (frac > 0); a caller that
\* passes sticky passes quo of more than p bits; p is the significand width
RoundMagP(p, sign, quo, sticky, e) ==
    LET L == BitLen(quo)
    IN  IF L <= p THEN Norm(sign * quo, e)
        ELSE LET s == L - p
                 hi == quo \div Pow2(s)
                 lo == quo % Pow2(s)
                 half == Pow2(s - 1)
                 up == \/ lo > half
                       \/ (lo = half /\ sticky)
                       \/ (lo = half /\ ~sticky /\ hi % 2 = 1)
             IN  Norm(sign * (IF up THEN hi + 1 ELSE hi), e + s)

RoundMag(sign, quo, sticky, e) == RoundMagP(MantBits, sign, quo, sticky, e)

\* x + y, rounded once to p bits
FAddP(p, x, y) ==
    IF ~IsNum(x) \/ ~IsNum(y) THEN NaN
    ELSE IF x.m = 0 THEN y
    ELSE IF y.m = 0 THEN x
    ELSE LET tx == x.e + BitLen(Abs(x.m))
             ty == y.e + BitLen(Abs(y.m))
         IN  \* an operand below a quarter of the other's last place cannot
             \* change the rounded sum
             IF ty <= tx - p - 2 THEN x
             ELSE IF tx <= ty - p - 2 THEN y
             ELSE LET e == Min2(x.e, y.e)
                      s == x.m * Pow2(x.e - e) + y.m * Pow2(y.e - e)
                  IN  RoundMagP(p, Sgn(s), Abs(s), FALSE, e)

\* x + y, rounded once
FAdd(x, y) == FAddP(MantBits, x, y)

FNeg(x) == IF IsNum(x) THEN [x EXCEPT !.m = -x.m] ELSE x

\* x - y, rounded once
FSub(x, y) == FAdd(x, FNeg(y))

\* x * y, rounded once to p bits
FMulP(p, x, y) ==
    IF ~IsNum(x) \/ ~IsNum(y) THEN NaN
    ELSE RoundMagP(p, Sgn(x.m) * Sgn(y.m), Abs(x.m) * Abs(y.m), FALSE, x.e + y.e)

\* x * y, rounded once
FMul(x, y) == FMulP(MantBits, x, y)

\* x / y, rounded once to p bits; Python raises ZeroDivisionError for
\* y == 0.0
FDivP(p, x, y) ==
    IF ~IsNum(x) \/ ~IsNum(y) THEN NaN
    ELSE IF y.m = 0 THEN ZeroDiv
    ELSE IF x.m = 0 THEN FInt(0)
    ELSE LET n == Abs(x.m)
             d == Abs(y.m)
             s == Max2(0, p + 1 + BitLen(d) - BitLen(n))
             quo == (n * Pow2(s)) \div d
             r == (n * Pow2(s)) % d
         IN  RoundMagP(p, Sgn(x.m) * Sgn(y.m), quo, r > 0, x.e - y.e - s)

\* x / y, rounded once
FDiv(x, y) == FDivP(MantBits, x, y)

\* abs(x)
FAbs(x) == IF IsNum(x) THEN [x EXCEPT !.m = Abs(x.m)] ELSE x

\* x < y (exact)
FLt(x, y) ==
    /\ IsNum(x) /\ IsNum(y)
    /\ LET d == FSub(x, y) IN IsNum(d) /\ d.m < 0

\* x <= 0
FLeZero(x) == IsNum(x) /\ x.m <= 0

\* <<quotient, remainder>> of (acc * d + r) * 2^s by d, for r < d, one
\* binary digit at a time (no intermediate value exceeds 2 * d or the
\* quotient)
RECURSIVE LongDiv(_, _, _, _)
LongDiv(acc, r, d, s) ==
    IF s = 0 THEN <<acc, r>>
    ELSE IF 2 * r >= d THEN LongDiv(2 * acc + 1, 2 * r - d, d, s - 1)
    ELSE LongDiv(2 * acc, 2 * r, d, s - 1)

\* a decimal literal n/d (d a power of ten, n >= 0) as the nearest float of
\* p bits
FDecP(p, n, d) ==
    IF n = 0 THEN FInt(0)
    ELSE LET s == Max2(0, p + 1 + BitLen(d) - BitLen(n))
             qr == LongDiv(n \div d, n % d, d, s)
         IN  RoundMagP(p, 1, qr[1], qr[2] > 0, -s)

\* a decimal literal n/d as the nearest float
FDec(n, d) == FDecP(MantBits, n, d)

\* abs(x) < 1e-12, for x = m * 2^e: |m| * 5^12 < 2^k with k = -(e + 12).
\* 5^12 = 14901 * 2^14 + 2641 has 28 bits; the product is compared without
\* being formed.  (The literal's own rounding, below 2^-53 of its value, is
\* finer than any input of the model.)
LessThan1em12(x) ==
    /\ IsNum(x)
    /\ \/ x.m = 0
       \/ LET k == -(x.e + 12)
              L == BitLen(Abs(x.m))
          IN  /\ k >= 27 + L
              /\ \/ k >= 28 + L
                 \/ Abs(x.m) * 14901 + ((Abs(x.m) * 2641) \div 16384) < Pow2(k - 14)

(***************************************************************************)
(* Calibration engine (main.py; CalibParams of test1.py / test2.py).       *)
(***************************************************************************)
\* a two-point formula with the offset's sign flipped (b = pH1 + a*V1)
ph_two_point_flipped(volts, pH1, V1, pH2, V2) ==
    IF LessThan1em12(FAbs(FSub(V2, V1))) THEN NaN
    ELSE LET a == FDiv(FSub(pH2, pH1), FSub(V2, V1))
             b == FAdd(pH1, FMul(a, V1))
         IN  FAdd(FMul(a, volts), b)

\* a two-point formula without the degenerate-calibration guard
ph_two_point_unguarded(volts, pH1, V1, pH2, V2) ==
    LET a == FDiv(FSub(pH2, pH1), FSub(V2, V1))
        b == FSub(pH1, FMul(a, V1))
    IN  IF a = ZeroDiv THEN ZeroDiv ELSE FAdd(FMul(a, volts), b)

\* main.py ph_two_point
ph_two_point(volts, pH1, V1, pH2, V2) ==
    IF LessThan1em12(FAbs(FSub(V2, V1))) THEN NaN
    ELSE LET a == FDiv(FSub(pH2, pH1), FSub(V2, V1))
             b == FSub(pH1, FMul(a, V1))
         IN  FAdd(FMul(a, volts), b)

\* CalibParams(pH1, V1, pH2, V2, tempC)
CalibParams(pH1, V1, pH2, V2, tempC) ==
    [pH1 |-> pH1, V1 |-> V1, pH2 |-> pH2, V2 |-> V2, tempC |-> tempC]

\* CalibParams.a_gain: raises ZeroDivisionError when V2 == V1
a_gain(c) == FDiv(FSub(c.pH2, c.pH1), FSub(c.V2, c.V1))

\* CalibParams.b_off
b_off(c) ==
    IF a_gain(c) = ZeroDiv THEN ZeroDiv
    ELSE FSub(c.pH1, FMul(a_gain(c), c.V1))

\* CalibParams.ph_from_voltage
ph_from_voltage(c, V) ==
    IF a_gain(c) = ZeroDiv THEN ZeroDiv
    ELSE FAdd(FMul(a_gain(c), V), b_off(c))

\* R, F and LN10 of main.py, each literal rounded to a float of p bits
R_at(p) == FDecP(p, 8314463, 1000000)

F_at(p) == FDecP(p, 96485332, 1000)

LN10_at(p) == FDecP(p, 2302585, 1000000)

\* the literal 273.15
KelvinOffset_at(p) == FDecP(p, 27315, 100)

R == R_at(MantBits)

F == F_at(MantBits)

LN10 == LN10_at(MantBits)

KelvinOffset == KelvinOffset_at(MantBits)

\* a slope per e-fold instead of per decade: the factor ln(10) left out
nernst_slope_per_efold(p, temp_c) ==
    LET T == FAddP(p, temp_c, KelvinOffset_at(p))
    IN  FDivP(p, FMulP(p, R_at(p), T), F_at(p))

\* main.py nernst_slope_volt_per_pH, in floats of p bits
nernst_slope_volt_per_pH_at(p, temp_c) ==
    LET T == FAddP(p, temp_c, KelvinOffset_at(p))
    IN  FMulP(p, FDivP(p, FMulP(p, R_at(p), T), F_at(p)), LN10_at(p))

\* main.py nernst_slope_volt_per_pH
nernst_slope_volt_per_pH(temp_c) == nernst_slope_volt_per_pH_at(MantBits, temp_c)

\* the formula alone, the slope never tested
ph_nernst_unguarded(volts, E0, temp_c, sign) ==
    FAdd(FInt(7), FDiv(FMul(FInt(sign), FSub(volts, E0)),
                       nernst_slope_volt_per_pH(temp_c)))

\* main.py ph_nernst; sign is the Python int -1 or 1
ph_nernst(volts, E0, temp_c, sign) ==
    LET S == nernst_slope_volt_per_pH(temp_c)
    IN  IF FLeZero(S) THEN NaN
        ELSE FAdd(FInt(7), FDiv(FMul(FInt(sign), FSub(volts, E0)), S))

(***************************************************************************)
(* Text lines.  A line is a sequence of one-character strings; "#" stands  *)
(* for a byte that is not valid UTF-8.                                     *)
(***************************************************************************)
IsSpace(c) == c \in {" ", "\t", "\r", "\n"}

IsDigit(c) == c \in {"0", "1", "2", "3", "4", "5", "6", "7", "8", "9"}

DigitVal(c) ==
    CASE c = "0" -> 0 [] c = "1" -> 1 [] c = "2" -> 2 [] c = "3" -> 3
      [] c = "4" -> 4 [] c = "5" -> 5 [] c = "6" -> 6 [] c = "7" -> 7
      [] c = "8" -> 8 [] c = "9" -> 9

\* bytes.decode(errors="ignore"): undecodable bytes are dropped
Decode(bytes) == SelectSeq(bytes, LAMBDA c : c # "#")

RECURSIVE LStrip(_)
LStrip(s) == IF s # <<>> /\ IsSpace(Head(s)) THEN LStrip(Tail(s)) ELSE s

RECURSIVE RStrip(_)
RStrip(s) ==
    IF s # <<>> /\ IsSpace(s[Len(s)]) THEN RStrip(SubSeq(s, 1, Len(s) - 1))
    ELSE s

\* str.strip()
Strip(s) == RStrip(LStrip(s))

\* index of the first position >= i of s that holds no white space
RECURSIVE SkipSpace(_, _)
SkipSpace(s, i) ==
    IF i <= Len(s) /\ IsSpace(s[i]) THEN SkipSpace(s, i + 1) ELSE i

\* index of the first position >= i of s that holds no digit
RECURSIVE SkipDigits(_, _)
SkipDigits(s, i) ==
    IF i <= Len(s) /\ IsDigit(s[i]) THEN SkipDigits(s, i + 1) ELSE i

\* the digits s[i..j-1] as an integer
RECURSIVE DigitsVal(_, _, _)
DigitsVal(s, i, j) ==
    IF j <= i THEN 0 ELSE 10 * DigitsVal(s, i, j - 1) + DigitVal(s[j - 1])

RECURSIVE Pow10(_)
Pow10(n) == IF n <= 0 THEN 1 ELSE 10 * Pow10(n - 1)

\* [+-]?\d+(?:\.\d+)? matched at position i of s: the position after the
\* match, or 0 when there is no match at i
NumberEnd(s, i) ==
    LET d0 == IF i <= Len(s) /\ s[i] \in {"+", "-"} THEN i + 1 ELSE i
        d1 == SkipDigits(s, d0)
        f1 == IF d1 + 1 <= Len(s) /\ s[d1] = "." THEN SkipDigits(s, d1 + 1)
              ELSE d1
    IN  IF d1 = d0 THEN 0
        ELSE IF d1 <= Len(s) /\ s[d1] = "." /\ f1 > d1 + 1 THEN f1
        ELSE d1

\* float(text) for text = s[i..j-1] matching [+-]?\d+(?:\.\d+)?
NumberVal(s, i, j) ==
    LET neg == s[i] = "-"
        d0 == IF s[i] \in {"+", "-"} THEN i + 1 ELSE i
        d1 == SkipDigits(s, d0)
        mag == IF d1 < j
               THEN FDec(DigitsVal(s, d0, d1) * Pow10(j - d1 - 1)
                           + DigitsVal(s, d1 + 1, j), Pow10(j - d1 - 1))
               ELSE FDec(DigitsVal(s, d0, d1), 1)
    IN  IF neg THEN FNeg(mag) ELSE mag

\* [Vv]\s*[:=]\s*([+-]?\d+(?:\.\d+)?) matched at position i of s: the
\* position where group 1 starts, or 0 when there is no match at i
TaggedStart(s, i) ==
    IF ~(i <= Len(s) /\ s[i] \in {"V", "v"}) THEN 0
    ELSE LET c == SkipSpace(s, i + 1)
         IN  IF ~(c <= Len(s) /\ s[c] \in {":", "="}) THEN 0
             ELSE LET g == SkipSpace(s, c + 1)
                  IN  IF NumberEnd(s, g) = 0 THEN 0 ELSE g

\* re.search of the tagged pattern from position i on: group 1's start, or 0
RECURSIVE SearchTagged(_, _)
SearchTagged(s, i) ==
    IF i > Len(s) THEN 0
    ELSE IF TaggedStart(s, i) # 0 THEN TaggedStart(s, i)
    ELSE SearchTagged(s, i + 1)

\* re.match of the bare number pattern: tried at position i only
SearchNumber_match_only(s, i) == IF NumberEnd(s, i) # 0 THEN i ELSE 0

\* re.search of the bare number pattern from position i on: its start, or 0
RECURSIVE SearchNumber(_, _)
SearchNumber(s, i) ==
    IF i > Len(s) THEN 0
    ELSE IF NumberEnd(s, i) # 0 THEN i
    ELSE SearchNumber(s, i + 1)

\* the bare number pattern alone, the tagged pattern never tried
parse_first_number_only(line) ==
    LET m2 == SearchNumber(line, 1)
    IN  IF m2 # 0 THEN NumberVal(line, m2, NumberEnd(line, m2)) ELSE None

\* main.py parse_voltage_from_line
parse_voltage_from_line(line) ==
    LET m == SearchTagged(line, 1)
        m2 == SearchNumber(line, 1)
    IN  IF m # 0 THEN NumberVal(line, m, NumberEnd(line, m))
        ELSE IF m2 # 0 THEN NumberVal(line, m2, NumberEnd(line, m2))
        ELSE None

(***************************************************************************)
(* main.py: one action per script run.                                     *)
(***************************************************************************)
\* values the operator can give the widgets, and what the port can deliver
SourceInputs == {"Serial (Arduino)", "Simulador"}

pH1Inputs == {FInt(7)}

pH2Inputs == {FInt(4)}

V1Inputs == {FInt(0)}

V2Inputs == {FInt(0), FInt(3), Norm(1, -41)}

TempInputs == {FDec(25, 1)}

E0Inputs == {FDec(25, 10)}

\* ser.readline(): the bytes of a line, or SerialException
SerialReads ==
    {[exc |-> FALSE, bytes |-> b] :
        b \in {<<>>, <<" ", "\n">>, <<"p", "H", "?", "\n">>,
               <<"V", "=", "1", "\n">>, <<"#", "3", "\n">>}}
    \cup {[exc |-> TRUE, bytes |-> <<>>]}

NoRead == [exc |-> FALSE, bytes |-> <<>>]

\* read_sample_sim(): 2.97 + 0.005*sin(2*pi*t/40), some value near 2.97
SimVolts == {FDec(297, 100)}

\* list_serial_ports()
PortLists == {<<>>, <<"COM3">>}

\* round(x, 3) for x in quarter milliseconds: the nearest millisecond,
\* ties to even
Round3(x) ==
    LET quo == x \div 4
        r == x % 4
    IN  IF r < 2 THEN quo
        ELSE IF r > 2 THEN quo + 1
        ELSE IF quo % 2 = 0 THEN quo ELSE quo + 1

\* a deque that evicts the newest entry instead of the oldest
deque_append_drop_newest(d, x) ==
    IF Len(d) >= MAX_BUFFER THEN SubSeq(d, 1, Len(d) - 1) \o <<x>>
    ELSE Append(d, x)

\* deque(maxlen=MAX_BUFFER).append
deque_append(d, x) ==
    IF Len(d) >= MAX_BUFFER THEN Tail(d) \o <<x>> ELSE Append(d, x)

\* a try block that makes 0.0 of a line without a number
read_line_voltage_zero_default(rd) ==
    IF rd.exc THEN None
    ELSE LET line == Strip(Decode(rd.bytes))
         IN  IF line = <<>> THEN None
             ELSE IF parse_voltage_from_line(line) = None THEN FInt(0)
             ELSE parse_voltage_from_line(line)

\* lines 205-214 of read_sample_serial(): the try block, for what
\* ser.readline() gave
read_line_voltage(rd) ==
    IF rd.exc THEN None
    ELSE LET line == Strip(Decode(rd.bytes))
         IN  IF line = <<>> THEN None ELSE parse_voltage_from_line(line)

\* the lines "V=2.500", "garbage" and "V=2.677" as ser.readline() returns them
FeedLines ==
    {<<"V", "=", "2", ".", "5", "0", "0", "\n">>,
     <<"g", "a", "r", "b", "a", "g", "e", "\n">>,
     <<"V", "=", "2", ".", "6", "7", "7", "\n">>}

FeedReads == {[exc |-> FALSE, bytes |-> b] : b \in FeedLines}

\* read_line_voltage, tabulated once over SerialReads and FeedReads
ReadVoltageTable ==
    {<<rd, read_line_voltage(rd)>> : rd \in SerialReads \cup FeedReads}

\* read_sample_serial()
read_sample_serial(ser1, conn1, rd) ==
    IF ~conn1 \/ ser1 = "None" THEN None
    ELSE (CHOOSE p \in ReadVoltageTable : p[1] = rd)[2]

\* acquire_voltage()
acquire_voltage(src, ser1, conn1, rd, sim) ==
    IF src = "Simulador" THEN sim ELSE read_sample_serial(ser1, conn1, rd)

\* whether this run calls ser.readline()
Reads(src, ser1, conn1) == src # "Simulador" /\ conn1 /\ ser1 # "None"

\* lines 128-129: the port list is scanned while the cache is empty
ScanPorts ==
    \E ports \in (IF cached_ports = <<>> THEN PortLists ELSE {cached_ports}) :
        cached_ports' = ports

\* every voltage a run can acquire
AcquiredVolts == ({p[2] : p \in ReadVoltageTable} \cup SimVolts) \ {None}

\* ph_two_point and ph_nernst, tabulated once over the voltages and widget
\* values of the model
TwoPointTable ==
    {<<a, ph_two_point(a[1], a[2], a[3], a[4], a[5])>> :
        a \in AcquiredVolts \X pH1Inputs \X (V1Inputs \cup {FDec(2500, 1000)})
                \X pH2Inputs \X (V2Inputs \cup {FDec(2677, 1000)})}

NernstTable ==
    {<<a, ph_nernst(a[1], a[2], a[3], -1)>> :
        a \in AcquiredVolts \X E0Inputs \X TempInputs}

\* line 228: ph_two_point(V, pH1, V1, pH2, V2)
ph_tp_val(w, V) ==
    (CHOOSE p \in TwoPointTable : p[1] = <<V, w.pH1, w.V1, w.pH2, w.V2>>)[2]

\* line 229: ph_nernst(V, E0, temp_c, sign=sign), sign = -1 (line 185)
ph_nernst_val(w, V) ==
    (CHOOSE p \in NernstTable : p[1] = <<V, w.E0, w.temp_c>>)[2]

\* line 172: the values of "Muestras a visualizar" (min_value scaled to 1,
\* max_value = MAX_BUFFER)
WindowInputs == {1, MAX_BUFFER}

\* lines 239-244: pd.DataFrame of the four buffers, one row per position
data_frame(t, V, tp, pn) ==
    [i \in 1 .. Len(t) |->
        [t_rel |-> t[i], V |-> V[i], pH_2p |-> tp[i], pH_nernst |-> pn[i]]]

\* a tail that returns the first n rows
tail_from_front(df, n) == SubSeq(df, 1, Min2(n, Len(df)))

\* line 245: df.tail(n).reset_index(drop=True)
tail(df, n) == SubSeq(df, Len(df) - Min2(n, Len(df)) + 1, Len(df))

\* a cell of to_csv for a float: its repr, an empty cell for NaN
csv_field(x) ==
    IF x = NaN THEN [k |-> "empty"] ELSE [k |-> "repr", of |-> x]

\* the cell of t_rel, which round() made a number
csv_time(t) == [k |-> "repr", of |-> t]

CsvHeader == <<"t_rel", "V", "pH_2p", "pH_nernst">>

csv_line(row) ==
    <<csv_time(row.t_rel), csv_field(row.V), csv_field(row.pH_2p),
      csv_field(row.pH_nernst)>>

\* a to_csv that leaves out the rows holding a NaN
to_csv_dropna(df) ==
    <<CsvHeader>> \o
    [i \in 1 .. Len(SelectSeq(df, LAMBDA r : r.pH_2p # NaN /\ r.pH_nernst # NaN))
        |-> csv_line(SelectSeq(df, LAMBDA r : r.pH_2p # NaN
                                             /\ r.pH_nernst # NaN)[i])]

\* lines 294 and 302: df.to_csv(index=False), as its lines of cells
to_csv(df) == <<CsvHeader>> \o [i \in 1 .. Len(df) |-> csv_line(df[i])]

\* a run ended before line 239: it has no df, df_vis or download data
NotRendered == [k |-> "not rendered"]

\* lines 239-245 of a run whose buffers make the frame df
Rendered(window, df) == [df |-> df, df_vis |-> tail(df, window)]

\* what the model keeps of a run's globals: the acquired V, the two-point
\* voltages, the window size, the source, the status message that
\* "Conectar" left in the sidebar (lines 150 and 152; "" when it was not
\* clicked), how far the run got ("init": no run yet;
\* "rerun": ended by st.rerun() before the acquisition; "done"; "raised"),
\* and the frames a run that got to the end made of the buffers it left
RunGlobals(w, V, stage, msg) ==
    [V |-> V, V1 |-> w.V1, V2 |-> w.V2, window |-> w.window, src |-> w.src,
     status |-> msg, stage |-> stage,
     out |-> IF stage = "done"
             THEN Rendered(w.window, data_frame(buf_t', buf_V', buf_pH_tp',
                                                buf_pH_nernst'))
             ELSE NotRendered]

\* an update that records a placeholder sample when no voltage was read
UpdateBuffersPlaceholder(w, V, now1, msg) ==
    LET t_rel == Round3(now1 - t0)
        tp == IF V = None THEN NaN ELSE ph_tp_val(w, V)
        pn == IF V = None THEN NaN ELSE ph_nernst_val(w, V)
    IN  /\ buf_V' = deque_append(buf_V, V)
        /\ buf_pH_tp' = deque_append(buf_pH_tp, tp)
        /\ buf_pH_nernst' = deque_append(buf_pH_nernst, pn)
        /\ buf_t' = deque_append(buf_t, t_rel)
        /\ appended' = Append(appended,
                              [t |-> t_rel, V |-> V, tp |-> tp, pn |-> pn])
        /\ run' = RunGlobals(w, V, "done", msg)

\* an update whose pH values are computed from the voltage of the sample
\* before (from V itself when the buffers are empty)
UpdateBuffersStaleVoltage(w, V, now1, msg) ==
    LET t_rel == Round3(now1 - t0)
        U == IF buf_V = <<>> \/ V = None THEN V ELSE buf_V[Len(buf_V)]
        tp == ph_tp_val(w, U)
        pn == ph_nernst_val(w, U)
    IN  IF V = None
        THEN /\ UNCHANGED <<buf_V, buf_pH_tp, buf_pH_nernst, buf_t, appended>>
             /\ run' = RunGlobals(w, V, "done", msg)
        ELSE IF tp = ZeroDiv \/ pn = ZeroDiv
        THEN /\ UNCHANGED <<buf_V, buf_pH_tp, buf_pH_nernst, buf_t, appended>>
             /\ run' = RunGlobals(w, V, "raised", msg)
        ELSE /\ buf_V' = deque_append(buf_V, V)
             /\ buf_pH_tp' = deque_append(buf_pH_tp, tp)
             /\ buf_pH_nernst' = deque_append(buf_pH_nernst, pn)
             /\ buf_t' = deque_append(buf_t, t_rel)
             /\ appended' = Append(appended,
                                   [t |-> t_rel, V |-> V, tp |-> tp, pn |-> pn])
             /\ run' = RunGlobals(w, V, "done", msg)

\* lines 225-234: the buffer update of a run that acquired V at time now1
\* with the widget values w
UpdateBuffers(w, V, now1, msg) ==
    LET t_rel == Round3(now1 - t0)
        tp == ph_tp_val(w, V)
        pn == ph_nernst_val(w, V)
    IN  IF V = None
        THEN /\ UNCHANGED <<buf_V, buf_pH_tp, buf_pH_nernst, buf_t, appended>>
             /\ run' = RunGlobals(w, V, "done", msg)
        ELSE IF tp = ZeroDiv \/ pn = ZeroDiv
        THEN \* the run dies on line 228 or 229, before any append
             /\ UNCHANGED <<buf_V, buf_pH_tp, buf_pH_nernst, buf_t, appended>>
             /\ run' = RunGlobals(w, V, "raised", msg)
        ELSE /\ buf_V' = deque_append(buf_V, V)
             /\ buf_pH_tp' = deque_append(buf_pH_tp, tp)
             /\ buf_pH_nernst' = deque_append(buf_pH_nernst, pn)
             /\ buf_t' = deque_append(buf_t, t_rel)
             /\ appended' = Append(appended,
                                   [t |-> t_rel, V |-> V, tp |-> tp, pn |-> pn])
             /\ run' = RunGlobals(w, V, "done", msg)

\* the widget values of a run (lines 171-185)
Widgets ==
    [src : SourceInputs, window : WindowInputs, pH1 : pH1Inputs,
     V1 : V1Inputs, pH2 : pH2Inputs, V2 : V2Inputs, temp_c : TempInputs,
     E0 : E0Inputs]

\* the widget values pH1 = 7.00, V1 = 2.500, pH2 = 4.00, V2 = 2.677, the
\* other widgets as the model has them, the source being the serial port
FeedWidgets ==
    [src : {"Serial (Arduino)"}, window : WindowInputs, pH1 : pH1Inputs,
     V1 : {FDec(2500, 1000)}, pH2 : pH2Inputs,
     V2 : {FDec(2677, 1000)}, temp_c : TempInputs, E0 : E0Inputs]

\* lines 170-234 of a run whose buttons left the serial state (ser1, conn1),
\* the widgets holding a value of W and the port delivering one of RD
Acquire(W, RD, ser1, conn1, msg) ==
    \E w \in W :
        /\ now + 1 <= MaxTime
        /\ now' = now + 1
        /\ \E rd \in (IF Reads(w.src, ser1, conn1) THEN RD ELSE {NoRead}),
              sim \in (IF w.src = "Simulador" THEN SimVolts ELSE {None}) :
              UpdateBuffers(w, acquire_voltage(w.src, ser1, conn1, rd, sim),
                            now + 1, msg)
        /\ UNCHANGED <<t0, thVars>>

Acquisition(ser1, conn1, msg) ==
    /\ Acquire(Widgets, SerialReads, ser1, conn1, msg)
    /\ UNCHANGED <<fnVars, appVars>>

\* a run triggered by the auto-refresh or by a widget other than a button
RunTick ==
    /\ ScanPorts
    /\ Acquisition(ser, serial_connected, "")
    /\ UNCHANGED <<ser, serial_connected>>

\* a "Conectar" whose failure leaves the session's port as it was
RunConnect_keeps_old_port ==
    /\ ScanPorts
    /\ \E opened \in BOOLEAN :
          /\ ser' = (IF opened THEN "Serial" ELSE ser)
          /\ serial_connected' = (opened \/ serial_connected)
          /\ Acquisition(IF opened THEN "Serial" ELSE ser,
                         opened \/ serial_connected,
                         IF opened THEN "Conectado"
                         ELSE "No se pudo conectar")

\* a connect whose failure clears the flag and keeps the handle it had
RunConnect_failure_keeps_handle ==
    /\ ScanPorts
    /\ \E opened \in BOOLEAN :
          /\ ser' = (IF opened THEN "Serial" ELSE ser)
          /\ serial_connected' = opened
          /\ Acquisition(IF opened THEN "Serial" ELSE ser, opened,
                         IF opened THEN "Conectado"
                         ELSE "No se pudo conectar")

\* a run triggered by "Conectar" (lines 139-155), pyserial being installed;
\* opened: whether serial.Serial(...) succeeds
RunConnect ==
    /\ ScanPorts
    /\ \E opened \in BOOLEAN :
          /\ ser' = (IF opened THEN "Serial" ELSE "None")
          /\ serial_connected' = opened
          /\ Acquisition(IF opened THEN "Serial" ELSE "None", opened,
                         IF opened THEN "Conectado"
                         ELSE "No se pudo conectar")

\* a run triggered by "Desconectar" (lines 157-164)
RunDisconnect ==
    /\ ScanPorts
    /\ ser' = "None"
    /\ serial_connected' = FALSE
    /\ Acquisition("None", FALSE, "")

\* a run triggered by "Re-scan puertos" (lines 166-168): ends in st.rerun()
RunRescan ==
    /\ \E ports \in PortLists : cached_ports' = ports
    /\ run' = [run EXCEPT !.V = None, !.stage = "rerun", !.status = "",
                          !.out = NotRendered]
    /\ UNCHANGED <<now, t0, buf_V, buf_pH_tp, buf_pH_nernst, buf_t, ser,
                   serial_connected, appended, fnVars, appVars, thVars>>

\* a reset that empties the buffers and leaves t0 where it was
RunReset_keeps_t0 ==
    /\ ScanPorts
    /\ \E w \in Widgets :
          /\ now + 1 <= MaxTime
          /\ now' = now + 1
          /\ run' = RunGlobals(w, None, "rerun", "")
    /\ buf_V' = <<>>
    /\ buf_pH_tp' = <<>>
    /\ buf_pH_nernst' = <<>>
    /\ buf_t' = <<>>
    /\ appended' = <<>>
    /\ UNCHANGED <<t0, ser, serial_connected, fnVars, appVars, thVars>>

\* a run triggered by "Reset buffers" (lines 187-193): ends in st.rerun()
RunReset ==
    /\ ScanPorts
    /\ \E w \in Widgets :
          /\ now + 1 <= MaxTime
          /\ now' = now + 1
          /\ t0' = now + 1
          /\ run' = RunGlobals(w, None, "rerun", "")
    /\ buf_V' = <<>>
    /\ buf_pH_tp' = <<>>
    /\ buf_pH_nernst' = <<>>
    /\ buf_t' = <<>>
    /\ appended' = <<>>
    /\ UNCHANGED <<ser, serial_connected, fnVars, appVars, thVars>>

\* lines 101-116: the session state a first run creates
InitMain ==
    /\ now = 0
    /\ t0 = 0
    /\ buf_V = <<>>
    /\ buf_pH_tp = <<>>
    /\ buf_pH_nernst = <<>>
    /\ buf_t = <<>>
    /\ ser = "None"
    /\ serial_connected = FALSE
    /\ cached_ports = <<>>
    /\ run = [V |-> None, V1 |-> FInt(0), V2 |-> FInt(0), window |-> 1,
              src |-> "Serial (Arduino)", status |-> "", stage |-> "init",
              out |-> NotRendered]
    /\ appended = <<>>

\* what the port has yet to deliver when a connected session is fed lines:
\* every sequence of at most MaxTime of the lines of FeedReads
Feeds == UNION {[1 .. n -> FeedReads] : n \in 0 .. MaxTime}

\* a connected session with empty buffers, and the lines it will be fed
InitFeed ==
    /\ now = 0
    /\ t0 = 0
    /\ buf_V = <<>>
    /\ buf_pH_tp = <<>>
    /\ buf_pH_nernst = <<>>
    /\ buf_t = <<>>
    /\ ser = "Serial"
    /\ serial_connected = TRUE
    /\ cached_ports = <<"COM3">>
    /\ run = [V |-> None, V1 |-> FInt(0), V2 |-> FInt(0), window |-> 1,
              src |-> "Serial (Arduino)", status |-> "", stage |-> "init",
              out |-> NotRendered]
    /\ appended = <<>>
    /\ fn_args \in [lines : Feeds]
    /\ fn_out = fn_args.lines

\* a run of the auto-refresh in which ser.readline() returns the next line
\* of the feed, the widgets holding the values of FeedWidgets
RunFeed ==
    /\ fn_out # <<>>
    /\ ScanPorts
    /\ Acquire(FeedWidgets, {Head(fn_out)}, ser, serial_connected, "")
    /\ fn_out' = Tail(fn_out)
    /\ UNCHANGED <<fn_args, ser, serial_connected, appVars>>

\* lines 292-298: the data of the download button "Ventana (CSV)" that the
\* last run left on the page
dl_window_csv ==
    IF run.out = NotRendered THEN NotRendered ELSE to_csv(run.out.df_vis)

\* lines 300-306: the data of the download button "Historico (CSV)"
dl_full_csv ==
    IF run.out = NotRendered THEN NotRendered ELSE to_csv(run.out.df)

(***************************************************************************)
(* The pure functions, applied to inputs drawn at the start.               *)
(***************************************************************************)
FnPh == {FInt(4), FInt(7)}

FnV == {FInt(0), FInt(1), FInt(3), Norm(1, -41), Norm(1, -39)}

InitFn ==
    /\ fn_args \in [volts : FnV, pH1 : FnPh, V1 : FnV, pH2 : FnPh, V2 : FnV]
    /\ fn_out = [tp |-> None, cal |-> None]

IdleFn ==
    /\ fn_args = [volts |-> FInt(0), pH1 |-> FInt(7), V1 |-> FInt(0),
                  pH2 |-> FInt(4), V2 |-> FInt(0)]
    /\ fn_out = [tp |-> None, cal |-> None]

Call_ph_two_point ==
    /\ fn_out.tp = None
    /\ fn_out' = [fn_out EXCEPT !.tp =
          ph_two_point(fn_args.volts, fn_args.pH1, fn_args.V1, fn_args.pH2,
                       fn_args.V2)]
    /\ UNCHANGED <<fn_args, mainVars, thVars, appVars>>

Call_ph_from_voltage ==
    /\ fn_out.cal = None
    /\ fn_out' = [fn_out EXCEPT !.cal =
          ph_from_voltage(CalibParams(fn_args.pH1, fn_args.V1, fn_args.pH2,
                                      fn_args.V2, FDec(25, 1)),
                          fn_args.volts)]
    /\ UNCHANGED <<fn_args, mainVars, thVars, appVars>>

\* parse_voltage_from_line called on a line: every text of at most MaxLine
\* characters over LineChars, and the lines of the docstring
MaxLine == 4

LineChars == {"V", "v", "=", ":", " ", "1", "2", ".", "-", "x"}

ExampleLines ==
    { <<"f", "o", "o", " ", "V", ":", " ", "3", ".", "1", " ", "b", "a",
        "r">>,
      <<"V", ",", "2", ".", "9", "7", ",", "p", "H", ",", "7", ".", "0",
        "1">>,
      <<"2", ".", "9", "7", "3", "4">>,
      <<"V", "=", "2", ".", "9", "7", "3", "4">>,
      <<"{", "\"", "V", "\"", ":", "2", ".", "9", "7", ",", "\"", "p", "H",
        "\"", ":", "7", ".", "0", "1", "}">> }

ParseLines ==
    UNION {[1 .. n -> LineChars] : n \in 0 .. MaxLine} \cup ExampleLines

\* the call has not returned yet
Pending == [k |-> "pending"]

InitParse ==
    /\ fn_args \in [line : ParseLines]
    /\ fn_out = Pending

Call_parse_voltage_from_line ==
    /\ fn_out = Pending
    /\ fn_out' = parse_voltage_from_line(fn_args.line)
    /\ UNCHANGED <<fn_args, mainVars, thVars, appVars>>

\* ph_nernst called on these arguments: temperatures below, at and above
\* absolute zero, voltages equal to E0 and on either side of it
NernstVolts == {FInt(0), FDec(25, 10), FDec(3, 1), Norm(1, -4)}

NernstE0 == {FInt(0), FDec(25, 10), FDec(3, 1)}

NernstTemps ==
    {FNeg(FDec(600, 1)), FNeg(KelvinOffset), FNeg(FDec(200, 1)), FInt(0),
     FDec(25, 1), FDec(37, 1)}

NernstSigns == {-1, 1}

InitNernst ==
    /\ fn_args \in [volts : NernstVolts, E0 : NernstE0, temp_c : NernstTemps,
                     sign : NernstSigns]
    /\ fn_out = Pending

Call_ph_nernst ==
    /\ fn_out = Pending
    /\ fn_out' = ph_nernst(fn_args.volts, fn_args.E0, fn_args.temp_c,
                           fn_args.sign)
    /\ UNCHANGED <<fn_args, mainVars, thVars, appVars>>

\* nernst_slope_volt_per_pH on whole temperatures 0 .. MaxTempC degrees C
MaxTempC == 60

SlopeTemps == {FInt(t) : t \in 0 .. MaxTempC}

InitSlope ==
    /\ fn_args \in [temp_c : SlopeTemps]
    /\ fn_out = Pending

Call_nernst_slope_volt_per_pH ==
    /\ fn_out = Pending
    /\ fn_out' = nernst_slope_volt_per_pH_at(SlopeBits, fn_args.temp_c)
    /\ UNCHANGED <<fn_args, mainVars, thVars, appVars>>

(***************************************************************************)
(* tests/test1.py and tests/test2.py: a reader thread per connection, a    *)
(* queue between it and the script, and the script's runs.                 *)
(***************************************************************************)
\* readers that can be created
MaxReaders == 2

\* MAX_POINTS = 4000 in test2.py:135 and test1.py:176, scaled down so that
\* the cut happens within the explored runs
MAX_POINTS == 2

\* lines with content the serial source delivers before it falls silent
MaxClock == 3

ReaderIds == 1 .. MaxReaders

\* the position of the first c in s at or after i, or 0
RECURSIVE IndexOf(_, _, _)
IndexOf(s, c, i) ==
    IF i > Len(s) THEN 0
    ELSE IF s[i] = c THEN i
    ELSE IndexOf(s, c, i + 1)

\* str.split(sep) for a one-character sep
RECURSIVE Split(_, _)
Split(s, sep) ==
    LET i == IndexOf(s, sep, 1)
    IN  IF i = 0 THEN <<s>>
        ELSE <<SubSeq(s, 1, i - 1)>> \o Split(SubSeq(s, i + 1, Len(s)), sep)

ValueError == [k |-> "ValueError"]

\* float(text) for text = [+-]?digits, whose digits start at d0
py_float_int(t, d0) ==
    LET mag == FDec(DigitsVal(t, d0, Len(t) + 1), 1)
    IN  IF t[1] = "-" THEN FNeg(mag) ELSE mag

\* float(text) for text = [+-]?digits.digits with the point at d1 (either
\* run of digits may be empty, not both)
py_float_frac(t, d0, d1) ==
    LET nfrac == Len(t) - d1
        mag == FDec(DigitsVal(t, d0, d1) * Pow10(nfrac)
                      + DigitsVal(t, d1 + 1, Len(t) + 1), Pow10(nfrac))
    IN  IF t[1] = "-" THEN FNeg(mag) ELSE mag

\* float(text) for stripped text whose digits start at d0 and stop at d1
py_float_at(t, d0, d1) ==
    IF d1 = Len(t) + 1
    THEN IF d1 > d0 THEN py_float_int(t, d0) ELSE ValueError
    ELSE IF t[d1] = "." /\ SkipDigits(t, d1 + 1) = Len(t) + 1
                       /\ Len(t) - d0 >= 1
    THEN py_float_frac(t, d0, d1)
    ELSE ValueError

\* float(text) for stripped text whose digits start at d0
py_float_from(t, d0) == py_float_at(t, d0, SkipDigits(t, d0))

\* float(text) for stripped text
py_float_stripped(t) ==
    py_float_from(t, IF t # <<>> /\ t[1] \in {"+", "-"} THEN 2 ELSE 1)

\* float(s) for text made of digits, signs, points, blanks and the letters
\* a, b, c, x: [+-]?(\d+(\.\d*)?|\.\d+) between white space, else ValueError
py_float(s) == py_float_stripped(Strip(s))

\* what self.ser.readline() can do: raise, or return these bytes
ReaderReads ==
    { [exc |-> TRUE, bytes |-> <<>>] } \cup
    { [exc |-> FALSE, bytes |-> b] :
        b \in { <<>>,
                <<"x", "\n">>,
                <<"1", ",", "7", ",", "7", "\n">>,
                <<"a", ",", "b", ",", "c", "\n">> } }

\* test2.py:72-75: the three floats, or the exception the first bad one
\* raises, caught at line 78
data_item(t, V, pH_cal, pH_nernst) ==
    IF ValueError \in {V, pH_cal, pH_nernst}
    THEN [kind |-> "__ERROR__", msg |-> "ValueError"]
    ELSE [kind |-> "DATA", t |-> t, V |-> V, pH_cal |-> pH_cal,
          pH_nernst |-> pH_nernst]

\* test2.py:70-77 for a line with content
parts_item(line, parts, t) ==
    IF Len(parts) >= 3
    THEN data_item(t, py_float(parts[1]), py_float(parts[2]),
                   py_float(parts[3]))
    ELSE [kind |-> "LOG", line |-> line]

\* test2.py:68-77 for the stripped line
line_item(line, t) ==
    IF line = <<>> THEN [kind |-> "none"]
    ELSE parts_item(line, Split(line, ","), t)

\* the item the loop body of SerialReader.run puts for one readline, or
\* [kind |-> "none"] when it puts nothing (the line is empty)
reader_item(rd, t) ==
    IF rd.exc THEN [kind |-> "__ERROR__", msg |-> "SerialException"]
    ELSE line_item(Strip(Decode(rd.bytes)), t)

\* reader_item for every read, computed once
ReaderItemTable == { <<rd, reader_item(rd, 0)>> : rd \in ReaderReads }

ItemOf(rd, t) ==
    LET it == (CHOOSE p \in ReaderItemTable : p[1] = rd)[2]
    IN  IF it.kind = "DATA" THEN [it EXCEPT !.t = t] ELSE it

\* queue.Queue.put with the items at the wrong end
q_put_front(items, item) == <<item>> \o items

\* queue.Queue.put
q_put(items, item) == Append(items, item)

\* threading.Thread.is_alive() (never, whatever the thread does)
is_alive_never(r) == FALSE

\* threading.Thread.is_alive(): from start() until run() returns
is_alive(r) == r # 0 /\ readers[r].pc \in {"open", "loop", "read", "close"}

\* self.out_q.put(item) by a reader whose queue is queue i.  Only the queue
\* the session holds is ever read, so only its items are kept.
out_q_put(i, item) ==
    IF i = q THEN [queues EXCEPT ![i] = q_put(@, item)] ELSE queues

\* the id the next SerialReader gets: 0 when no more can be created
NextReaderId ==
    IF \E r \in ReaderIds : readers[r].pc = "unborn"
    THEN CHOOSE r \in ReaderIds :
            /\ readers[r].pc = "unborn"
            /\ \A r2 \in ReaderIds : r2 < r => readers[r2].pc # "unborn"
    ELSE 0

\* ---- SerialReader.run (test2.py:57-86, the same code as test1.py:44-76)

\* serial.Serial(...) and reset_input_buffer(): on failure the thread puts
\* an error item and returns
ReaderOpen(r) ==
    /\ readers[r].pc = "open"
    /\ \E opened \in BOOLEAN :
          IF opened
          THEN /\ readers' = [readers EXCEPT ![r].pc = "loop"]
               /\ UNCHANGED queues
          ELSE /\ readers' = [readers EXCEPT ![r].pc = "done"]
               /\ queues' = out_q_put(readers[r].out_q,
                                       [kind |-> "__ERROR__", msg |-> "open"])
    /\ UNCHANGED <<running, reader, q, stop_event, data, calib, ui, page,
                   clock, signalled, mainVars, fnVars, appVars>>

\* while not self.stop_event.is_set()
ReaderCheck(r) ==
    /\ readers[r].pc = "loop"
    /\ readers' = [readers EXCEPT ![r].pc =
                      IF stop_event THEN "close" ELSE "read"]
    /\ UNCHANGED <<running, reader, q, stop_event, data, calib, queues, ui,
                   page, clock, signalled, mainVars, fnVars, appVars>>

\* the loop body goes on to the next pass whatever it put
loop_breaks_never(item) == FALSE

\* "break" at test2.py:80 (test1.py:70): the pass that put an error item is
\* the last one
loop_breaks(item) == item.kind = "__ERROR__"

\* one pass of the loop body: readline, parse, put; an exception puts an
\* error item and leaves the loop
ReaderRead(r) ==
    /\ readers[r].pc = "read"
    /\ \E rd \in ReaderReads :
          LET item == ItemOf(rd, clock + 1)
          IN  /\ item.kind \in {"DATA", "LOG"} => clock < MaxClock
              /\ readers' = [readers EXCEPT ![r].pc =
                    IF loop_breaks(item) THEN "close" ELSE "loop"]
              /\ queues' = IF item.kind = "none" THEN queues
                           ELSE out_q_put(readers[r].out_q, item)
              /\ clock' = IF item.kind \in {"DATA", "LOG"} THEN clock + 1
                          ELSE clock
    /\ UNCHANGED <<running, reader, q, stop_event, data, calib, ui, page,
                   signalled, mainVars, fnVars, appVars>>

\* self.ser.close(); run() returns
ReaderClose(r) ==
    /\ readers[r].pc = "close"
    /\ readers' = [readers EXCEPT ![r].pc = "done"]
    /\ signalled' = signalled \ {r}
    /\ UNCHANGED <<running, reader, q, stop_event, data, calib, queues, ui,
                   page, clock, mainVars, fnVars, appVars>>

ReaderStep(r) ==
    ReaderOpen(r) \/ ReaderCheck(r) \/ ReaderRead(r) \/ ReaderClose(r)

\* ---- the script (test2.py:89-232, test1.py:95-237)

\* a cut that keeps the oldest MAX_POINTS records instead of the newest
Trim_keep_oldest(d) ==
    IF Len(d) > MAX_POINTS THEN SubSeq(d, 1, MAX_POINTS) ELSE d

\* data[-MAX_POINTS:] (test2.py:163-164, test1.py:182-184)
Trim(d) ==
    IF Len(d) > MAX_POINTS THEN SubSeq(d, Len(d) - MAX_POINTS + 1, Len(d))
    ELSE d

\* get_df() (test2.py:166-172; test1.py:178-189, applied to the buffer it
\* has cut): the columns t and t_rel of the frame, t_rel counted from the
\* first record of the buffer
get_df(d) ==
    [i \in 1 .. Len(d) |-> [t |-> d[i].t, t_rel |-> d[i].t - d[1].t]]

\* the session state a handler works on
Session ==
    [running |-> running, reader |-> reader, q |-> q,
     stop_event |-> stop_event, queues |-> queues, readers |-> readers,
     warned |-> FALSE]

\* stop_event.clear(); a new queue; a new SerialReader, started.  Nothing
\* reads the queue the session held so far ever again.
start_reader(s) ==
    LET n == NextReaderId
    IN  [s EXCEPT !.stop_event = FALSE,
                  !.q = n,
                  !.queues = [s.queues EXCEPT
                                 ![n] = <<>>,
                                 ![s.q] = <<>>],
                  !.readers = [s.readers EXCEPT
                                  ![n] = [pc |-> "open", out_q |-> n]],
                  !.reader = n,
                  !.running = TRUE]

\* the body of "if Conectar": test2.py:105-112, test1.py:111-115
conectar(s, file) ==
    IF file = "test2.py" /\ is_alive(s.reader)
    THEN [s EXCEPT !.warned = TRUE]
    ELSE start_reader(s)

\* a disconnect that clears running and leaves the stop event as it is
desconectar_flag_only(s) == [s EXCEPT !.running = FALSE]

\* the body of "if Desconectar": test2.py:115-116, test1.py:118-119
desconectar(s) == [s EXCEPT !.stop_event = TRUE, !.running = FALSE]

\* values the operator can give the calibration widgets
CalibInputs ==
    { CalibParams(FInt(7), FDec(25, 10), FInt(4), FDec(2677, 1000),
                  FDec(25, 1)),
      CalibParams(FInt(7), FDec(25, 10), FInt(4), FDec(25, 10),
                  FDec(25, 1)) }

\* the calibrations whose a_gain raises ZeroDivisionError
DegenerateCalibs == {c \in CalibInputs : a_gain(c) = ZeroDiv}

\* "Re-calcular pH localmente desde V": the toggle is left switched on
UseLocalCalInputs == {TRUE}

Clicks == {"none", "Conectar", "Desconectar", "Re-scan puertos",
           "Aplicar calibracion"}

\* One script run up to the drain, for the button whose click triggered it:
\* the sidebar (buttons rendered with the state they find, the clicked
\* button's body), then "Aplicar calibracion", whose st.success formats
\* a_gain and so raises for V1 == V2.
ScriptRun(click, file) ==
    /\ \E local \in UseLocalCalInputs,
          c \in (IF click = "Aplicar calibracion" THEN CalibInputs
                 ELSE {calib}) :
          LET s0 == Session
              s1 == IF click = "Conectar" THEN conectar(s0, file) ELSE s0
              s2 == IF click = "Desconectar" THEN desconectar(s1) ELSE s1
              applied == click = "Aplicar calibracion"
              raised == applied /\ c \in DegenerateCalibs
              ends == click = "Re-scan puertos" \/ raised \/ ~s2.running
          IN  /\ running' = s2.running
              /\ reader' = s2.reader
              /\ q' = s2.q
              /\ stop_event' = s2.stop_event
              /\ queues' = s2.queues
              /\ readers' = s2.readers
              /\ calib' = c
              /\ page' = [connect_disabled |-> running,
                          disconnect_disabled |-> ~s1.running,
                          warning |-> s1.warned,
                          df |-> IF s2.running \/ raised
                                    \/ click = "Re-scan puertos"
                                 THEN page.df ELSE get_df(data)]
              /\ ui' = IF ends THEN [pc |-> "idle", local |-> TRUE]
                       ELSE [pc |-> "drain", local |-> local]
              /\ signalled' =
                    IF click = "Desconectar"
                    THEN signalled \cup
                         {r \in ReaderIds : readers[r].pc \in
                                            {"open", "loop", "read", "close"}}
                    ELSE signalled
    /\ UNCHANGED <<data, clock, mainVars, fnVars, appVars>>

\* a run no button triggered: the auto-refresh, or another widget
Tick ==
    /\ ui.pc = "idle"
    /\ ScriptRun("none", "test2.py")

\* test2.py:103-112; the button can be clicked when the page shows it
\* enabled (a reader is at hand for the connection)
Conectar ==
    /\ ui.pc = "idle"
    /\ ~page.connect_disabled
    /\ is_alive(reader) \/ NextReaderId # 0
    /\ ScriptRun("Conectar", "test2.py")

\* test1.py:110-115
Conectar_test1 ==
    /\ ui.pc = "idle"
    /\ ~page.connect_disabled
    /\ NextReaderId # 0
    /\ ScriptRun("Conectar", "test1.py")

\* test2.py:114-116, test1.py:117-119
Desconectar ==
    /\ ui.pc = "idle"
    /\ ~page.disconnect_disabled
    /\ ScriptRun("Desconectar", "test2.py")

\* test2.py:118-119, test1.py:123-124
Rescan ==
    /\ ui.pc = "idle"
    /\ ScriptRun("Re-scan puertos", "test2.py")

\* test2.py:130-132, test1.py:137-139
Aplicar ==
    /\ ui.pc = "idle"
    /\ ScriptRun("Aplicar calibracion", "test2.py")

\* the voltages the DATA items can carry
DataVolts == {p[2].V : p \in {p2 \in ReaderItemTable : p2[2].kind = "DATA"}}

\* st.session_state.calib.ph_from_voltage(V) for every calibration and
\* voltage, computed once
LocalTable ==
    { <<c, V, ph_from_voltage(c, V)>> : c \in CalibInputs, V \in DataVolts }

\* the record drain_queue_to_buffer builds for a DATA item; pH_local is None
\* when the key is left out, ZeroDiv when computing it raises
data_record(item, c, local) ==
    [t |-> item.t, V |-> item.V, pH_arduino |-> item.pH_cal,
     pH_nernst |-> item.pH_nernst,
     pH_local |-> IF local
                  THEN (CHOOSE p \in LocalTable :
                           p[1] = c /\ p[2] = item.V)[3]
                  ELSE None]

\* One pass of the while loop of drain_queue_to_buffer with an item in the
\* queue (test2.py:139-160, test1.py:151-172).  A DATA item whose pH_local
\* raises ends the script run there: the item is gone, nothing is appended.
\* An error item sets stop, clears running and breaks: the cut of the buffer
\* is what the script does next.
DrainItem ==
    /\ ui.pc = "drain"
    /\ queues[q] # <<>>
    /\ LET item == Head(queues[q])
           rec == data_record(item, calib, ui.local)
           raised == item.kind = "DATA" /\ rec.pH_local = ZeroDiv
       IN  /\ queues' = [queues EXCEPT ![q] = Tail(@)]
           /\ data' = IF raised THEN data
                      ELSE IF item.kind = "DATA" THEN Append(data, rec)
                      ELSE data
           /\ IF raised
              THEN /\ ui' = [pc |-> "idle", local |-> TRUE]
                   /\ UNCHANGED <<stop_event, running>>
              ELSE IF item.kind = "__ERROR__"
              THEN /\ stop_event' = TRUE
                   /\ running' = FALSE
                   /\ ui' = [pc |-> "cut", local |-> TRUE]
              ELSE UNCHANGED <<stop_event, running, ui>>
           /\ UNCHANGED page
    /\ UNCHANGED <<reader, q, calib, readers, clock, signalled, mainVars,
                   fnVars, appVars>>

\* get_nowait() raises queue.Empty, or an error item broke the loop: the
\* buffer is cut to its last MAX_POINTS records and the rest of the script
\* renders get_df()
DrainEnd ==
    /\ \/ ui.pc = "drain" /\ queues[q] = <<>>
       \/ ui.pc = "cut"
    /\ data' = Trim(data)
    /\ page' = [page EXCEPT !.df = get_df(Trim(data))]
    /\ ui' = [pc |-> "idle", local |-> TRUE]
    /\ UNCHANGED <<running, reader, q, stop_event, calib, queues, readers,
                   clock, signalled, mainVars, fnVars, appVars>>

\* test2.py:13-22 and 44-45 (test1.py:80-91): the session state of a first
\* run, no button clicked yet
InitThreads ==
    /\ running = FALSE
    /\ reader = 0
    /\ q = 0
    /\ stop_event = FALSE
    /\ data = <<>>
    /\ calib = CalibParams(FInt(7), FDec(25, 10), FInt(4), FDec(2677, 1000),
                           FDec(25, 1))
    /\ queues = [i \in 0 .. MaxReaders |-> <<>>]
    /\ readers = [r \in ReaderIds |-> [pc |-> "unborn", out_q |-> 0]]
    /\ ui = [pc |-> "idle", local |-> TRUE]
    /\ page = [connect_disabled |-> FALSE, disconnect_disabled |-> TRUE,
               warning |-> FALSE, df |-> <<>>]
    /\ clock = 0
    /\ signalled = {}

(***************************************************************************)
(* Mediciones/old/app3.py.  One script run is the file executed from the   *)
(* top: it resets the module's globals, reads the widgets and the buttons, *)
(* then loops over the lines of the port until the next widget event       *)
(* starts another run.  st.session_state outlives the runs.                *)
(***************************************************************************)
\* lines 15-16: NEUTRAL_VOLTAGE = 2.50, PH_SLOPE = 0.152
InitialNeutralVoltage == FDec(250, 100)

InitialSlope == FDec(152, 1000)

\* line 47: values the operator gives "Valor de pH conocido"; 7.0 is the
\* widget's default
CalPhInputs == {FInt(7), FInt(4)}

\* the voltages of the lines "Voltaje: ... V | pH: ..." (line 110)
LineVolts == {FDec(2500, 1000), FDec(2677, 1000)}

\* lines 77-78; ZeroDiv when the division raises
calculate_ph(voltage, neutral_v, ph_slope) ==
    LET d == FDiv(FSub(neutral_v, voltage), ph_slope)
    IN  IF d = ZeroDiv THEN ZeroDiv ELSE FAdd(FInt(7), d)

\* lines 86-96, on g = the globals and the list it may write: the division
\* by ph2 - ph1 raises before anything is assigned, the handler on lines
\* 93-94 shows the error and the function returns
calibrate_slope(v1, ph1, v2, ph2, g) ==
    LET slope == FDiv(FSub(v1, v2), FSub(ph2, ph1))
    IN  IF slope = ZeroDiv THEN g
        ELSE [PH_SLOPE |-> slope,
              NEUTRAL_VOLTAGE |-> FAdd(v1, FMul(FSub(ph1, FInt(7)), slope)),
              calibration_points |-> <<>>]

\* lines 138-151: a slope request handled with the voltage V of the line
slope_request(V, g) ==
    IF Len(g.calibration_points) < 2
    THEN LET pts == Append(g.calibration_points,
                           [voltage |-> V, ph |-> cal_ph_value])
             g1 == [g EXCEPT !.calibration_points = pts]
         IN  IF Len(pts) = 2
             THEN calibrate_slope(pts[1].voltage, pts[1].ph,
                                  pts[2].voltage, pts[2].ph, g1)
             ELSE g1
    ELSE g

\* lines 15-16 and 57-62: the first run of a session
InitApp3 ==
    /\ calibration_points = <<>>
    /\ calibrate_neutral_triggered = FALSE
    /\ calibrate_slope_triggered = FALSE
    /\ NEUTRAL_VOLTAGE = InitialNeutralVoltage
    /\ PH_SLOPE = InitialSlope
    /\ cal_ph_value = FInt(7)

\* a run started by "Calibrar Punto Neutro (pH 7.0)" (lines 65-66)
ClickNeutral ==
    /\ calibrate_neutral_triggered' = TRUE
    /\ NEUTRAL_VOLTAGE' = InitialNeutralVoltage
    /\ PH_SLOPE' = InitialSlope
    /\ UNCHANGED <<calibration_points, calibrate_slope_triggered,
                   cal_ph_value, mainVars, fnVars, thVars>>

\* a run started by "Calibrar Pendiente (con 2 puntos)" (lines 67-68)
ClickSlope ==
    /\ calibrate_slope_triggered' = TRUE
    /\ NEUTRAL_VOLTAGE' = InitialNeutralVoltage
    /\ PH_SLOPE' = InitialSlope
    /\ UNCHANGED <<calibration_points, calibrate_neutral_triggered,
                   cal_ph_value, mainVars, fnVars, thVars>>

\* a run started by a new value of "Valor de pH conocido" (lines 47-54)
ChangeCalPh ==
    /\ \E ph \in CalPhInputs \ {cal_ph_value} : cal_ph_value' = ph
    /\ NEUTRAL_VOLTAGE' = InitialNeutralVoltage
    /\ PH_SLOPE' = InitialSlope
    /\ UNCHANGED <<calibration_points, calibrate_neutral_triggered,
                   calibrate_slope_triggered, mainVars, fnVars, thVars>>

\* one pass of the loop with a line that matches (lines 107-151).  When
\* calculate_ph raises (PH_SLOPE == 0.0) the handler on line 160 ends the
\* pass before the calibration requests are looked at.
ReadLine ==
    /\ \E V \in LineVolts :
          IF calculate_ph(V, NEUTRAL_VOLTAGE, PH_SLOPE) = ZeroDiv
          THEN UNCHANGED appVars
          ELSE LET g0 == [PH_SLOPE |-> PH_SLOPE,
                          NEUTRAL_VOLTAGE |->
                              IF calibrate_neutral_triggered THEN V
                              ELSE NEUTRAL_VOLTAGE,
                          calibration_points |-> calibration_points]
                   g1 == IF calibrate_slope_triggered
                         THEN slope_request(V, g0) ELSE g0
               IN  /\ calibration_points' = g1.calibration_points
                   /\ NEUTRAL_VOLTAGE' = g1.NEUTRAL_VOLTAGE
                   /\ PH_SLOPE' = g1.PH_SLOPE
                   /\ calibrate_neutral_triggered' = FALSE
                   /\ calibrate_slope_triggered' = FALSE
                   /\ UNCHANGED cal_ph_value
    /\ UNCHANGED <<mainVars, fnVars, thVars>>

(***************************************************************************)
(* Specifications.                                                         *)
(***************************************************************************)
StartMain == InitMain /\ IdleFn /\ InitThreads /\ InitApp3

NextMain ==
    \/ RunTick
    \/ RunConnect
    \/ RunDisconnect
    \/ RunRescan
    \/ RunReset

SpecMain == StartMain /\ [][NextMain]_vars

StartFn == InitFn /\ InitMain /\ InitThreads /\ InitApp3

NextFn ==
    \/ Call_ph_two_point
    \/ Call_ph_from_voltage

SpecFn == StartFn /\ [][NextFn]_vars

StartThreads == InitThreads /\ InitMain /\ IdleFn /\ InitApp3

NextT2 ==
    \/ Tick
    \/ Conectar
    \/ Desconectar
    \/ Rescan
    \/ Aplicar
    \/ DrainItem
    \/ DrainEnd
    \/ \E r \in ReaderIds : ReaderOpen(r)
    \/ \E r \in ReaderIds : ReaderCheck(r)
    \/ \E r \in ReaderIds : ReaderRead(r)
    \/ \E r \in ReaderIds : ReaderClose(r)

\* test2.py; the threads are scheduled fairly, every readline returns, and
\* a run that drains goes on to its end
SpecT2 ==
    /\ StartThreads
    /\ [][NextT2]_vars
    /\ \A r \in ReaderIds : WF_vars(ReaderStep(r))
    /\ WF_vars(DrainItem)
    /\ WF_vars(DrainEnd)
    /\ WF_vars(Tick /\ running)

NextT1 ==
    \/ Tick
    \/ Conectar_test1
    \/ Desconectar
    \/ Rescan
    \/ Aplicar
    \/ DrainItem
    \/ DrainEnd
    \/ \E r \in ReaderIds : ReaderOpen(r)
    \/ \E r \in ReaderIds : ReaderCheck(r)
    \/ \E r \in ReaderIds : ReaderRead(r)
    \/ \E r \in ReaderIds : ReaderClose(r)

\* test1.py, under the same scheduling
SpecT1 ==
    /\ StartThreads
    /\ [][NextT1]_vars
    /\ \A r \in ReaderIds : WF_vars(ReaderStep(r))
    /\ WF_vars(DrainItem)
    /\ WF_vars(DrainEnd)
    /\ WF_vars(Tick /\ running)

\* parse_voltage_from_line on every line of ParseLines
StartParse == InitParse /\ InitMain /\ InitThreads /\ InitApp3

NextParse == Call_parse_voltage_from_line

SpecParse == StartParse /\ [][NextParse]_vars

\* main.py fed lines through a connected port
StartFeed == InitFeed /\ InitThreads /\ InitApp3

NextFeed == RunFeed

SpecFeed == StartFeed /\ [][NextFeed]_vars

\* app3.py: clicks, new pH values and lines in any order
StartApp3 == InitApp3 /\ InitMain /\ IdleFn /\ InitThreads

NextApp3 ==
    \/ ClickNeutral
    \/ ClickSlope
    \/ ChangeCalPh
    \/ ReadLine

SpecApp3 == StartApp3 /\ [][NextApp3]_vars

\* nernst_slope_volt_per_pH on every temperature
StartSlope == InitSlope /\ InitMain /\ InitThreads /\ InitApp3

NextSlope == Call_nernst_slope_volt_per_pH

SpecSlope == StartSlope /\ [][NextSlope]_vars

\* ph_nernst on every combination of its arguments
StartNernst == InitNernst /\ InitMain /\ InitThreads /\ InitApp3

NextNernst == Call_ph_nernst

SpecNernst == StartNernst /\ [][NextNernst]_vars

(***************************************************************************)
(* Properties.                                                             *)
(***************************************************************************)
\* the last min(n, Len(seq)) entries of seq
LastN(seq, n) ==
    SubSeq(seq, Len(seq) - Min2(n, Len(seq)) + 1, Len(seq))

Column(samples, f) == [i \in 1..Len(samples) |-> samples[i][f]]

\* floor(|x| * 2^12) and ceil(|x| * 2^12) of a float x
FixDown(x) ==
    IF x.e + 12 >= 0 THEN Abs(x.m) * Pow2(x.e + 12)
    ELSE IF -(x.e + 12) > 30 THEN 0
    ELSE Abs(x.m) \div Pow2(-(x.e + 12))

FixUp(x) ==
    IF x.e + 12 >= 0 THEN Abs(x.m) * Pow2(x.e + 12)
    ELSE IF -(x.e + 12) > 30 THEN (IF x.m = 0 THEN 0 ELSE 1)
    ELSE (Abs(x.m) + Pow2(-(x.e + 12)) - 1) \div Pow2(-(x.e + 12))

\* an upper bound of |x - y| * 2^12, exact when both are multiples of 2^-12
FixDist(x, y) ==
    IF x.m * y.m >= 0
    THEN Max2(FixUp(x) - FixDown(y), FixUp(y) - FixDown(x))
    ELSE FixUp(x) + FixUp(y)

\* C1: each of the four buffers holds at most MAX_BUFFER entries, and holds
\* exactly the last MAX_BUFFER samples appended since it was last empty, in
\* the order they were appended (the oldest are the ones evicted).
C1_BuffersHoldLastSamples ==
    /\ Len(buf_t) <= MAX_BUFFER
    /\ Len(buf_V) <= MAX_BUFFER
    /\ Len(buf_pH_tp) <= MAX_BUFFER
    /\ Len(buf_pH_nernst) <= MAX_BUFFER
    /\ buf_t = Column(LastN(appended, MAX_BUFFER), "t")
    /\ buf_V = Column(LastN(appended, MAX_BUFFER), "V")
    /\ buf_pH_tp = Column(LastN(appended, MAX_BUFFER), "tp")
    /\ buf_pH_nernst = Column(LastN(appended, MAX_BUFFER), "pn")

\* C1 witness: MAX_BUFFER + 1 samples were appended, the oldest of them is
\* evicted and the buffer is full
C1_Witness ==
    /\ Len(appended) >= MAX_BUFFER + 1
    /\ Len(buf_V) = MAX_BUFFER

\* C3: a run whose acquisition yields no voltage leaves the four buffers
\* as they were.
C3_NoVoltageNoSample ==
    [][(now' # now /\ run'.stage = "done" /\ run'.V = None)
         => UNCHANGED <<buf_t, buf_V, buf_pH_tp, buf_pH_nernst>>]_vars

\* C3 witness: with the port connected and samples in the buffers, a run
\* has ended without a voltage
C3_Witness ==
    /\ run.stage = "done"
    /\ run.V = None
    /\ serial_connected
    /\ ser # "None"
    /\ buf_V # <<>>

\* ph_two_point gives NaN for every input of FnV, FnPh with
\* |V2 - V1| < 1e-12
DegenerateGivesNaN ==
    \A volts \in FnV, pH1 \in FnPh, V1 \in FnV, pH2 \in FnPh, V2 \in FnV :
        LessThan1em12(FAbs(FSub(V2, V1)))
            => ph_two_point(volts, pH1, V1, pH2, V2) = NaN

\* C6: when |V2 - V1| < 1e-12, ph_two_point returns NaN whatever volts, pH1
\* and pH2 are, the run that called it does not raise, and the NaN is
\* appended to buf_pH_tp next to the run's voltage in buf_V.
C6_DegenerateTwoPointIsNaN ==
    /\ DegenerateGivesNaN
    /\ (/\ run.stage \in {"done", "raised"}
        /\ run.V # None
        /\ LessThan1em12(FAbs(FSub(run.V2, run.V1))))
       => /\ run.stage = "done"
          /\ buf_pH_tp # <<>>
          /\ buf_pH_tp[Len(buf_pH_tp)] = NaN
          /\ buf_V[Len(buf_V)] = run.V
          /\ Len(buf_pH_tp) = Len(buf_V)

\* C6 witness: V2 differs from V1 by less than 1e-12 without being equal,
\* and the run stored NaN
C6_Witness ==
    /\ run.stage = "done"
    /\ run.V # None
    /\ run.V2 # run.V1
    /\ LessThan1em12(FAbs(FSub(run.V2, run.V1)))
    /\ buf_pH_tp # <<>>
    /\ buf_pH_tp[Len(buf_pH_tp)] = NaN

\* the two-point calibration of fn_args is usable
FnUsable == ~LessThan1em12(FAbs(FSub(fn_args.V2, fn_args.V1)))

\* the intermediate values of ph_two_point for fn_args
FnGain == FDiv(FSub(fn_args.pH2, fn_args.pH1), FSub(fn_args.V2, fn_args.V1))

FnOffset == FSub(fn_args.pH1, FMul(FnGain, fn_args.V1))

\* C7 as claimed: for V1 # V2, ph_two_point returns exactly pH1 at v = V1
\* and exactly pH2 at v = V2, and ph_from_voltage returns the same value.
C7_ExactAtCalibrationPoints ==
    (FnUsable /\ fn_out.tp # None)
       => /\ fn_args.volts = fn_args.V1 => fn_out.tp = fn_args.pH1
          /\ fn_args.volts = fn_args.V2 => fn_out.tp = fn_args.pH2
          /\ fn_out.cal # None => fn_out.cal = fn_out.tp

\* C7 amended: for a usable calibration ph_two_point returns the floating
\* point value of a*v + b, which ph_from_voltage returns too; at v = V1 it
\* is within 2^-MantBits * (|b| + |result|) of pH1, and at v = V2 within
\* 2^-MantBits * (4|pH2 - pH1| + |a*V1| + |a*V2| + |b| + |result|) of pH2.
C7_TwoPointWithinRounding ==
    (FnUsable /\ fn_out.tp # None)
       => /\ fn_out.tp = FAdd(FMul(FnGain, fn_args.volts), FnOffset)
          /\ fn_out.cal # None => fn_out.cal = fn_out.tp
          /\ fn_args.volts = fn_args.V1
                => FixDist(fn_out.tp, fn_args.pH1) * Pow2(MantBits)
                     <= FixDown(FnOffset) + FixDown(fn_out.tp)
          /\ fn_args.volts = fn_args.V2
                => FixDist(fn_out.tp, fn_args.pH2) * Pow2(MantBits)
                     <= 4 * FixDown(FSub(fn_args.pH2, fn_args.pH1))
                        + FixDown(FMul(FnGain, fn_args.V1))
                        + FixDown(FMul(FnGain, fn_args.V2))
                        + FixDown(FnOffset) + FixDown(fn_out.tp)

\* C7 witness: both functions were applied at v = V1 of a usable
\* calibration, agree, and the result is not pH1
C7_Witness ==
    /\ FnUsable
    /\ fn_args.volts = fn_args.V1
    /\ fn_out.tp # None
    /\ fn_out.cal = fn_out.tp
    /\ fn_out.tp # fn_args.pH1


\* the readers whose run() has started and has not returned
AliveReaders ==
    {r \in ReaderIds : readers[r].pc \in {"open", "loop", "read", "close"}}

\* a DATA item stamped t waits in the queue the session holds
Queued(t) ==
    \E k \in 1 .. Len(queues[q]) :
        queues[q][k].kind = "DATA" /\ queues[q][k].t = t

\* a record stamped t is in st.session_state.data
InData(t) == \E k \in 1 .. Len(data) : data[k].t = t

\* C2: in test2.py the records of st.session_state.data are in the order in
\* which the reader read them (the reader stamps each line it reads with a
\* later time than the one before), whatever the interleaving of the
\* reader's puts and the script's drains.
C2_DataInReadOrder ==
    \A i, j \in 1 .. Len(data) : i < j => data[i].t < data[j].t

\* C2: a drain is under way with two records already in the buffer, another
\* item waiting and the reader about to read again
C2_Witness ==
    /\ Len(data) >= 2
    /\ ui.pc = "drain"
    /\ queues[q] # <<>>
    /\ \E r \in ReaderIds : readers[r].pc = "read"

\* C4: in test2.py a line that cannot be parsed as a record is never
\* reported as an error: no error item in any queue comes from a failed
\* float().
C4_UnparseableLineIsSkipped ==
    \A i \in DOMAIN queues : \A k \in 1 .. Len(queues[i]) :
        queues[i][k].kind = "__ERROR__" => queues[i][k].msg # "ValueError"

\* C5: in test2.py, with a degenerate calibration applied (V1 == V2), every
\* step of the drain that takes a DATA item appends its record, with NaN as
\* the locally computed pH, and the drain goes on.
C5_DegenerateDrainAppendsUndefined ==
    [][(/\ ui.pc = "drain"
        /\ ui.local
        /\ calib.V1 = calib.V2
        /\ queues[q] # <<>>
        /\ Head(queues[q]).kind = "DATA"
        /\ queues'[q] = Tail(queues[q]))
       => (/\ Len(data') = Len(data) + 1
           /\ data'[Len(data')].t = Head(queues[q]).t
           /\ data'[Len(data')].pH_local = NaN
           /\ ui'.pc = "drain")]_vars

\* C8: in test1.py a reader that was alive when Desconectar set stop_event
\* eventually closes its port and returns, whatever the operator does next.
C8_SignalledReaderReturns ==
    \A r \in ReaderIds : (r \in signalled) ~> (readers[r].pc = "done")

\* C9: in test2.py at most one SerialReader is alive at any time.
C9_AtMostOneReaderAlive == Cardinality(AliveReaders) <= 1

\* C9: Conectar was clicked while the reader was alive, and was refused
C9_Witness ==
    /\ page.warning
    /\ AliveReaders # {}
    /\ \E r \in ReaderIds : readers[r].pc = "done"

\* C10: in test2.py every DATA record that is still in the queue when the
\* session is not running (Desconectar was clicked, or a new connection is
\* about to be started) eventually appears in st.session_state.data.
C10_QueuedRecordsReachData ==
    \A t \in 1 .. MaxClock : (Queued(t) /\ ~running) ~> InData(t)

\* an error item is the last item of its queue, and the reader that feeds
\* the queue has left its loop
ErrorItemsAreLast ==
    \A i \in ReaderIds : \A k \in 1 .. Len(queues[i]) :
        queues[i][k].kind = "__ERROR__"
            => /\ k = Len(queues[i])
               /\ readers[i].pc \in {"close", "done"}

\* this step of the drain takes an error item from the queue
DrainsErrorItem ==
    /\ ui.pc = "drain"
    /\ queues[q] # <<>>
    /\ Head(queues[q]).kind = "__ERROR__"
    /\ queues'[q] = Tail(queues[q])

C12_RelativeTimeIsImmutable ==
    [][\A i \in 1 .. Len(page.df) : \A j \in 1 .. Len(page'.df) :
          page.df[i].t = page'.df[j].t
              => page'.df[j].t_rel = page.df[i].t_rel]_vars


\* C13 as stated: the buffer never holds more than MAX_POINTS records, in
\* any reachable state
C13_NeverMoreThanMaxPoints == Len(data) <= MAX_POINTS

\* C13: whenever no drain is in progress the buffer holds at most
\* MAX_POINTS records, and the step that ends a drain keeps exactly the
\* newest MAX_POINTS of the records the drain left, in their order (the
\* oldest are the ones dropped)
C13_BoundedAfterEveryDrain ==
    /\ [](ui.pc = "idle" => Len(data) <= MAX_POINTS)
    /\ [][(ui.pc # "idle" /\ ui'.pc = "idle")
             => data' = LastN(data, MAX_POINTS)]_vars

\* C13 witness: a drain has ended with a full buffer whose oldest record is
\* not the first one read, and the page shows that buffer
C13_Witness ==
    /\ ui.pc = "idle"
    /\ Len(data) = MAX_POINTS
    /\ data[1].t > 1
    /\ data[MAX_POINTS].t = clock
    /\ Len(page.df) = MAX_POINTS

\* the text t reads [+-]?digits or [+-]?digits.digits
IsNumberText(t) ==
    LET body == IF t # <<>> /\ t[1] \in {"+", "-"} THEN Tail(t) ELSE t
        dots == {k \in 1 .. Len(body) : body[k] = "."}
    IN  /\ body # <<>>
        /\ \A k \in 1 .. Len(body) : IsDigit(body[k]) \/ k \in dots
        /\ Cardinality(dots) <= 1
        /\ \A k \in dots : 1 < k /\ k < Len(body)

\* a number token starts at position g of s
NumberStartsAt(s, g) ==
    \E e \in g .. Len(s) : IsNumberText(SubSeq(s, g, e))

\* the number token that starts at g, taken as far as it reads as a number
TokenAt(s, g) ==
    LET ends == {e \in g .. Len(s) : IsNumberText(SubSeq(s, g, e))}
    IN  SubSeq(s, g, CHOOSE e \in ends : \A o \in ends : o <= e)

\* position i of s holds the V or v of a tag (V, white space, : or =, white
\* space) that is followed at g by a number token
TagAt(s, i, g) ==
    /\ s[i] \in {"V", "v"}
    /\ \E c \in i + 1 .. g - 1 :
          /\ \A k \in i + 1 .. c - 1 : IsSpace(s[k])
          /\ s[c] \in {":", "="}
          /\ \A k \in c + 1 .. g - 1 : IsSpace(s[k])
    /\ NumberStartsAt(s, g)

\* where the tagged tokens of s have their numbers
TaggedNumbers(s) ==
    {g \in 1 .. Len(s) : \E i \in 1 .. g - 1 : TagAt(s, i, g)}

\* where the number tokens of s can start
NumberStarts(s) == {g \in 1 .. Len(s) : NumberStartsAt(s, g)}

Least(S) == CHOOSE x \in S : \A y \in S : x <= y

\* the digits of t, read left to right, as an integer
RECURSIVE DigitsOf(_, _, _)
DigitsOf(t, k, acc) ==
    IF k > Len(t) THEN acc
    ELSE DigitsOf(t, k + 1, IF IsDigit(t[k]) THEN 10 * acc + DigitVal(t[k])
                            ELSE acc)

\* the float nearest to the decimal number the text t reads
DecimalValue(t) ==
    LET dots == {k \in 1 .. Len(t) : t[k] = "."}
        nfrac == IF dots = {} THEN 0 ELSE Len(t) - Least(dots)
        mag == FDec(DigitsOf(t, 1, 0), Pow10(nfrac))
    IN  IF t[1] = "-" THEN FNeg(mag) ELSE mag

\* the three lines the contract quotes
Line_foo_V_3_1_bar ==
    <<"f", "o", "o", " ", "V", ":", " ", "3", ".", "1", " ", "b", "a", "r">>

Line_V_2_97_pH_7_01 ==
    <<"V", ",", "2", ".", "9", "7", ",", "p", "H", ",", "7", ".", "0", "1">>

Line_2_9734 == <<"2", ".", "9", "7", "3", "4">>

\* C14: parse_voltage_from_line returns the number of the first token
\* tagged V= or V: (either case) whenever the line has one, even when an
\* untagged number stands before it, and the first decimal number of the
\* line otherwise; "foo V: 3.1 bar" gives 3.1, "V,2.97,pH,7.01" gives 2.97
\* and "2.9734" gives 2.9734
C14_TaggedNumberPreferred ==
    fn_out # Pending =>
        LET line == fn_args.line
        IN  /\ TaggedNumbers(line) # {}
                => fn_out = DecimalValue(TokenAt(line,
                                                 Least(TaggedNumbers(line))))
            /\ (TaggedNumbers(line) = {} /\ NumberStarts(line) # {})
                => fn_out = DecimalValue(TokenAt(line,
                                                 Least(NumberStarts(line))))
            /\ line = Line_foo_V_3_1_bar => fn_out = FDec(31, 10)
            /\ line = Line_V_2_97_pH_7_01 => fn_out = FDec(297, 100)
            /\ line = Line_2_9734 => fn_out = FDec(29734, 10000)

\* C14 witness: the call has returned the tagged number of a line in which
\* another, untagged number stands first
C14_Witness ==
    /\ fn_out # Pending
    /\ TaggedNumbers(fn_args.line) # {}
    /\ Least(NumberStarts(fn_args.line)) < Least(TaggedNumbers(fn_args.line))
    /\ fn_out # DecimalValue(TokenAt(fn_args.line,
                                     Least(NumberStarts(fn_args.line))))

\* C15: parse_voltage_from_line never raises: the text it hands to float()
\* always converts, and it returns None exactly when the line holds no
\* numeric token, a number otherwise
C15_NoneIffNoNumber ==
    fn_out # Pending =>
        LET line == fn_args.line
        IN  /\ fn_out = None \/ IsNum(fn_out)
            /\ fn_out = None <=> NumberStarts(line) = {}
            /\ \A g \in NumberStarts(line) :
                  py_float(TokenAt(line, g)) = DecimalValue(TokenAt(line, g))

\* C15 witness: a call returned None for a line of MaxLine characters that
\* holds a point, a sign or a tag, and no digit
C15_Witness ==
    /\ fn_out = None
    /\ Len(fn_args.line) = MaxLine
    /\ \E k \in 1 .. MaxLine : fn_args.line[k] \in {".", "-", "V"}

\* temp_c is above absolute zero (-273.15)
Physical(temp_c) == FLt(FNeg(KelvinOffset), temp_c)

\* C16: ph_nernst returns the undefined value when the slope S(temp_c) is
\* <= 0, which is when temp_c is at or below -273.15; otherwise it returns
\* 7 + sign * (volts - E0) / S, which lies on the side of 7 that the sign of
\* sign * (volts - E0) names and is 7 when volts = E0, for either sign
C16_NernstGuardAndFormula ==
    fn_out # Pending =>
        LET a == fn_args
            S == nernst_slope_volt_per_pH(a.temp_c)
            num == FMul(FInt(a.sign), FSub(a.volts, a.E0))
        IN  /\ FLeZero(S) <=> ~Physical(a.temp_c)
            /\ ~Physical(a.temp_c) => fn_out = NaN
            /\ Physical(a.temp_c) =>
                  /\ fn_out = FAdd(FInt(7), FDiv(num, S))
                  /\ FLt(fn_out, FInt(7)) => num.m < 0
                  /\ FLt(FInt(7), fn_out) => num.m > 0
                  /\ a.volts = a.E0 => fn_out = FInt(7)

\* C16 witness: at a physical temperature, with sign = 1 and volts = E0 not
\* zero, the call returned 7
C16_Witness ==
    /\ fn_out = FInt(7)
    /\ Physical(fn_args.temp_c)
    /\ fn_args.sign = 1
    /\ fn_args.volts = fn_args.E0
    /\ fn_args.volts # FInt(0)

\* the samples the four buffers retain, oldest first
RetainedSamples ==
    [i \in 1 .. Len(buf_V) |->
        [t_rel |-> buf_t[i], V |-> buf_V[i], pH_2p |-> buf_pH_tp[i],
         pH_nernst |-> buf_pH_nernst[i]]]

\* buffer b, after a step, is what it was with its new last entry appended
\* and the oldest entry evicted when it was full
OneAppended(b, b1) ==
    /\ b1 # <<>>
    /\ b1 = LastN(Append(b, b1[Len(b1)]), MAX_BUFFER)

\* C17: the window of size n that a run shows is the last min(n, m) of the
\* m retained samples, in buffer order and never padded; and a run, whatever
\* window size it is given, does to the buffers nothing but the one append
\* (none when no voltage was read), so that neither computing the window
\* nor changing its size changes their contents or their capacity
C17_WindowIsLastSamples ==
    /\ [](run.stage = "done" =>
            LET m == Len(RetainedSamples)
                n == run.window
                k == IF n < m THEN n ELSE m
            IN  /\ Len(run.out.df_vis) = k
                /\ \A j \in 1 .. k :
                      run.out.df_vis[j] = RetainedSamples[m - k + j])
    /\ [][(now' # now /\ run'.stage = "done") =>
            IF run'.V = None
            THEN UNCHANGED <<buf_t, buf_V, buf_pH_tp, buf_pH_nernst>>
            ELSE /\ OneAppended(buf_t, buf_t')
                 /\ OneAppended(buf_V, buf_V')
                 /\ OneAppended(buf_pH_tp, buf_pH_tp')
                 /\ OneAppended(buf_pH_nernst, buf_pH_nernst')
                 /\ buf_V'[Len(buf_V')] = run'.V
                 /\ Len(buf_V') <= MAX_BUFFER]_vars

\* C17 witness: a run has shown a window larger than the number of retained
\* samples, of which there is at least one
C17_Witness ==
    /\ run.stage = "done"
    /\ buf_V # <<>>
    /\ run.window > Len(buf_V)
    /\ Len(run.out.df_vis) = Len(buf_V)

\* what a cell of a CSV line reads back as
read_cell(c) == IF c.k = "empty" THEN NaN ELSE c.of

read_line(l) ==
    [t_rel |-> read_cell(l[1]), V |-> read_cell(l[2]),
     pH_2p |-> read_cell(l[3]), pH_nernst |-> read_cell(l[4])]

\* C19: the full-history export of a run holds, after its header line,
\* exactly one record per retained sample, in insertion order, each reading
\* back as that sample; and the window export is the header followed by a
\* suffix of the full export's records
C19_ExportIsRetainedSamples ==
    run.stage = "done" =>
        LET full == dl_full_csv
            win == dl_window_csv
        IN  /\ full[1] = CsvHeader
            /\ Len(full) = Len(RetainedSamples) + 1
            /\ \A i \in 1 .. Len(RetainedSamples) :
                  read_line(full[i + 1]) = RetainedSamples[i]
            /\ win[1] = CsvHeader
            /\ Len(win) <= Len(full)
            /\ \A j \in 2 .. Len(win) :
                  win[j] = full[Len(full) - Len(win) + j]

\* C19 witness: a run exported a full buffer from which older samples had
\* been evicted, one of its samples holding an undefined pH, with a window
\* shorter than the buffer
C19_Witness ==
    /\ run.stage = "done"
    /\ Len(appended) > MAX_BUFFER
    /\ Len(dl_full_csv) = MAX_BUFFER + 1
    /\ Len(dl_window_csv) < Len(dl_full_csv)
    /\ \E i \in 1 .. Len(buf_pH_tp) : buf_pH_tp[i] = NaN

\* the step is a run that "Reset buffers" triggered: the only run that ends
\* in st.rerun() after time has passed
ResetStep == now' # now /\ run'.stage = "rerun"

\* C18: "Reset buffers" leaves the four buffers empty, whatever they held
\* (so also when they were empty already), and sets t0 to the instant of the
\* reset; nothing else moves t0; and the first sample appended to the empty
\* buffers carries the time of its run counted from t0, rounded to the
\* millisecond
C18_ResetEmptiesAndReanchors ==
    /\ [][ResetStep =>
            /\ buf_t' = <<>> /\ buf_V' = <<>>
            /\ buf_pH_tp' = <<>> /\ buf_pH_nernst' = <<>>
            /\ t0' = now']_vars
    /\ [][~ResetStep => t0' = t0]_vars
    /\ [][(buf_t = <<>> /\ buf_t' # <<>>)
            => buf_t' = <<Round3(now' - t0)>>]_vars

\* C18 witness: time had passed before a reset, and the first sample after
\* the reset is in the buffers with a timestamp counted from the reset
C18_Witness ==
    /\ t0 >= 2
    /\ Len(appended) = 1
    /\ buf_t = <<Round3(now - t0)>>
    /\ Len(buf_V) = 1
    /\ run.stage = "done"

\* the session holds an open port
Connected == serial_connected /\ ser # "None"

\* C20 (main.py): a run in which "Conectar" failed leaves the session without
\* a port; a session without a port gets one only in a run in which
\* "Conectar" succeeded; and a run that ends without a port and reads the serial source
\* acquires no voltage and appends no sample
C20_FailedConnectDoesNotAcquire ==
    /\ [][(now' # now /\ run'.status = "No se pudo conectar")
            => ~serial_connected' /\ ser' = "None"]_vars
    /\ [][(~Connected /\ Connected') => run'.status = "Conectado"]_vars
    /\ [][(now' # now /\ ~Connected' /\ run'.stage # "rerun"
              /\ run'.src = "Serial (Arduino)")
            => /\ run'.V = None
               /\ UNCHANGED <<buf_t, buf_V, buf_pH_tp, buf_pH_nernst>>]_vars

\* C20 witness: with samples in the buffers, a run in which "Conectar"
\* failed has ended on the serial source without a voltage
C20_Witness ==
    /\ run.status = "No se pudo conectar"
    /\ run.stage = "done"
    /\ run.src = "Serial (Arduino)"
    /\ run.V = None
    /\ ~Connected
    /\ buf_V # <<>>

\* C20 (test2.py): the step in which a reader fails to open its port ends
\* that reader and adds nothing to the buffer; a reader is created, and
\* tries to open the port, only in a run that "Conectar" triggered; and a
\* DATA item is put on a queue only by a reader that opened its port and is
\* reading it
C20_FailedOpenEndsReader ==
    /\ [][\A r \in ReaderIds :
            (readers[r].pc = "open" /\ readers'[r].pc = "done")
                => /\ data' = data
                   /\ \A i \in ReaderIds :
                         \/ queues'[i] = queues[i]
                         \/ /\ queues'[i] # <<>>
                            /\ queues'[i][Len(queues'[i])].kind = "__ERROR__"]_vars
    /\ [][\A r \in ReaderIds :
            (readers'[r].pc = "open" /\ readers[r].pc # "open") => Conectar]_vars
    /\ [][\A i \in ReaderIds :
            (/\ Len(queues'[i]) > Len(queues[i])
             /\ queues'[i][Len(queues'[i])].kind = "DATA")
                => \E r \in ReaderIds : /\ readers[r].pc = "read"
                                         /\ readers[r].out_q = i]_vars

\* a reader has failed to open its port and, with the session still marked
\* running, its error item is the only item waiting
C20_FailedOpenReached ==
    /\ reader # 0 /\ running
    /\ readers[reader].pc = "done"
    /\ queues[q] = <<[kind |-> "__ERROR__", msg |-> "open"]>>

\* what ser.readline() returns for the three lines of the scenario
Read_V_2_500 ==
    [exc |-> FALSE, bytes |-> <<"V", "=", "2", ".", "5", "0", "0", "\n">>]

Read_garbage ==
    [exc |-> FALSE, bytes |-> <<"g", "a", "r", "b", "a", "g", "e", "\n">>]

Read_V_2_677 ==
    [exc |-> FALSE, bytes |-> <<"V", "=", "2", ".", "6", "7", "7", "\n">>]

\* a and b of the two-point line through (2.500, 7.00) and (2.677, 4.00)
FeedGain ==
    FDiv(FSub(FInt(4), FInt(7)), FSub(FDec(2677, 1000), FDec(2500, 1000)))

FeedOffset == FSub(FInt(7), FMul(FeedGain, FDec(2500, 1000)))

C22_SlopeAt25 ==
    (fn_args.temp_c = FInt(25) /\ fn_out # Pending)
        => /\ IsNum(fn_out)
           /\ fn_out.e < 0
           /\ 5906 * Pow2(-fn_out.e) <= fn_out.m * 100000
           /\ fn_out.m * 100000 <= 5926 * Pow2(-fn_out.e)

\* C22: the slope has been computed for 25 degrees C
C22_Witness ==
    /\ fn_args.temp_c = FInt(25)
    /\ fn_out = nernst_slope_volt_per_pH_at(SlopeBits, FInt(25))

(***************************************************************************)
(* C23: the four buffers always have the same length, and the entries at   *)
(* one index are one run's sample: its voltage, the time of that run and   *)
(* the two pH values computed from that voltage with one set of widget     *)
(* values.  A step changes the buffers only by emptying all four or by      *)
(* appending to all four the sample of the run that step is.               *)
(***************************************************************************)
C23_BuffersStayAligned ==
    /\ [](/\ Len(buf_t) = Len(buf_V)
          /\ Len(buf_pH_tp) = Len(buf_V)
          /\ Len(buf_pH_nernst) = Len(buf_V)
          /\ Len(buf_V) <= Len(appended)
          /\ \A i \in 1 .. Len(buf_V) :
                LET s == appended[Len(appended) - Len(buf_V) + i]
                IN  /\ buf_V[i] = s.V
                    /\ buf_t[i] = s.t
                    /\ buf_pH_tp[i] = s.tp
                    /\ buf_pH_nernst[i] = s.pn
                    /\ \E w \in Widgets :
                          /\ buf_pH_tp[i] = ph_tp_val(w, buf_V[i])
                          /\ buf_pH_nernst[i] = ph_nernst_val(w, buf_V[i]))
    /\ [][\/ UNCHANGED <<buf_t, buf_V, buf_pH_tp, buf_pH_nernst, appended>>
          \/ /\ buf_t' = <<>> /\ buf_V' = <<>>
             /\ buf_pH_tp' = <<>> /\ buf_pH_nernst' = <<>>
             /\ appended' = <<>>
          \/ /\ Len(appended') = Len(appended) + 1
             /\ SubSeq(appended', 1, Len(appended)) = appended
             /\ appended'[Len(appended')].V = run'.V
             /\ appended'[Len(appended')].t = Round3(now' - t0)
             /\ OneAppended(buf_t, buf_t')
             /\ OneAppended(buf_V, buf_V')
             /\ OneAppended(buf_pH_tp, buf_pH_tp')
             /\ OneAppended(buf_pH_nernst, buf_pH_nernst')]_vars

\* C23 witness: after a reset and a connect click, the buffers hold the
\* samples of two runs, of different voltages and different pH values
C23_Witness ==
    /\ t0 > 0
    /\ serial_connected
    /\ Len(buf_V) = 2
    /\ buf_V[1] # buf_V[2]
    /\ buf_pH_tp[1] # buf_pH_tp[2]

(***************************************************************************)
(* C25: at the end of every run, serial_connected is True exactly when     *)
(* st.session_state.ser holds a handle; a connect that fails, over an open *)
(* port or not, ends with neither, a connect that succeeds with both.      *)
(***************************************************************************)
C25_FlagIffHandle ==
    /\ [](serial_connected <=> ser # "None")
    /\ [][/\ run'.status = "No se pudo conectar"
                => (~serial_connected' /\ ser' = "None")
          /\ run'.status = "Conectado"
                => (serial_connected' /\ ser' = "Serial")]_vars

\* C25 witness: a connect has failed after samples were read from an open
\* port, and the session holds neither flag nor handle
C25_Witness ==
    /\ run.status = "No se pudo conectar"
    /\ \E i \in 1 .. Len(buf_V) : buf_V[i] \notin SimVolts
    /\ ~serial_connected
    /\ ser = "None"

(***************************************************************************)
(* C24: in test2.py, at the end of every script run, running implies that  *)
(* stop_event is clear and that a reader has been created.  A Desconectar  *)
(* run and the step of the drain that takes an error item each set         *)
(* stop_event and clear running; no step sets the one without clearing the *)
(* other.                                                                  *)
(***************************************************************************)
C24_RunningMeansReaderNotStopped ==
    /\ []((ui.pc = "idle" /\ running) => (~stop_event /\ reader # 0))
    /\ [][/\ Desconectar => (stop_event' /\ ~running')
          /\ DrainsErrorItem => (stop_event' /\ ~running')
          /\ (~stop_event /\ stop_event') => ~running'
          /\ (running /\ ~running') => stop_event']_vars

\* C24 witness: the session is running on its second reader, the first one
\* having been told to stop by a Desconectar click
C24_Witness ==
    /\ ui.pc = "idle"
    /\ running
    /\ ~stop_event
    /\ reader = 2
    /\ 1 \in signalled

(***************************************************************************)
(* C26: in app3.py calibration_points never holds more than 2 entries; the *)
(* pass that registers the second point empties the list; and every pass   *)
(* that handles a slope request leaves fewer than 2 entries, so that the   *)
(* next request registers a point.                                         *)
(***************************************************************************)
C26_SecondPointEmptiesList ==
    /\ [](Len(calibration_points) <= 2)
    /\ [][/\ (Len(calibration_points) = 1
              /\ calibration_points' # calibration_points)
                => calibration_points' = <<>>
          /\ (calibrate_slope_triggered /\ ~calibrate_slope_triggered')
                => Len(calibration_points') < 2]_vars

=============================================================================
